---- MODULE Spec2Model ----
(***************************************************************************)
(* DivMachines: forward passes of the recommendation models in             *)
(* src/divmachines/models/__init__.py                                      *)
(*   MatrixFactorizationModel, SimpleMatrixFactorizationModel,             *)
(*   FactorizationMachine, SecondOrderInteraction.                         *)
(*                                                                         *)
(* A tensor is a record [shape, data]: shape is the sequence of dimension  *)
(* sizes, data the entries in row-major order.  The entries are floats:    *)
(* every arithmetic operation rounds its exact result to MantBits          *)
(* significant bits (round to nearest, ties to even), as FloatTensor       *)
(* arithmetic does with 24 bits.  Entries are kept on the integer grid;    *)
(* feature values are even so that the final 0.5 * (...) stays on it.      *)
(* An operation that raises (shape mismatch, bad axis) yields Raised, and  *)
(* every later operation on Raised yields Raised: the exception propagates *)
(* out of forward.                                                         *)
(***************************************************************************)
EXTENDS Integers, Sequences, FiniteSets, TLC

VARIABLES
    obj,     \* the constructed model object (its class and its fields)
    call,    \* the last completed forward call on it: input and outcome
    threads  \* forward calls in progress: per thread, its position and locals

vars == <<obj, call, threads>>

(***************************** bounds **************************************)
MantBits == 3       \* significant bits of the float format (24 in float32)
MaxFactors == 2     \* n_factors ranges over 1..MaxFactors
MaxFeatures == 2    \* n_features ranges over 1..MaxFeatures
MaxBatch == 2       \* every batch dimension ranges over 1..MaxBatch
NUsers == 2         \* n_users
NItems == 2         \* n_items

(************************ floating point ***********************************)
RECURSIVE TwoTo(_)
TwoTo(e) == IF e = 0 THEN 1 ELSE 2 * TwoTo(e - 1)

Abs(n) == IF n < 0 THEN -n ELSE n

\* the spacing of representable numbers around magnitude a
RECURSIVE Ulp(_, _)
Ulp(a, g) == IF a < g * TwoTo(MantBits) THEN g ELSE Ulp(a, 2 * g)

RoundAbs(a) ==
    LET g == Ulp(a, 1)
        q == a \div g
        r == a % g
    IN  IF 2 * r < g THEN q * g
        ELSE IF 2 * r > g THEN (q + 1) * g
        ELSE IF q % 2 = 0 THEN q * g ELSE (q + 1) * g

\* the float nearest to the exact value n
fl(n) == IF n < 0 THEN -RoundAbs(-n) ELSE RoundAbs(n)

fmul(a, b) == fl(a * b)
fadd(a, b) == fl(a + b)
fsub(a, b) == fl(a - b)
\* 0.5 * a: a change of exponent, exact
fhalf(a) == a \div 2

(***************************** tensors *************************************)
Raised == [shape |-> <<-1>>, data |-> <<>>]
IsRaised(t) == t.shape = <<-1>>

RECURSIVE Prod(_)
Prod(s) == IF s = <<>> THEN 1 ELSE Head(s) * Prod(Tail(s))

Rank(t) == Len(t.shape)

\* the 0-based coordinates of the 0-based flat position p in a tensor of shape s
Coord(s, p) ==
    [j \in 1..Len(s) |-> (p \div Prod(SubSeq(s, j + 1, Len(s)))) % s[j]]

RECURSIVE Flat(_, _)
Flat(s, idx) ==
    IF s = <<>> THEN 0
    ELSE Head(idx) * Prod(Tail(s)) + Flat(Tail(s), Tail(idx))

At(t, idx) == t.data[Flat(t.shape, idx) + 1]

Scalar(v) == [shape |-> <<>>, data |-> <<v>>]

\* broadcasting: shapes are aligned on the right; sizes must agree or be 1
PadLeft(s, r) == [j \in 1..r |-> IF j <= r - Len(s) THEN 1 ELSE s[j - (r - Len(s))]]
MaxOf(a, b) == IF a >= b THEN a ELSE b
Broadcastable(s1, s2) ==
    LET r == MaxOf(Len(s1), Len(s2))
        p1 == PadLeft(s1, r)
        p2 == PadLeft(s2, r)
    IN  \A j \in 1..r : p1[j] = p2[j] \/ p1[j] = 1 \/ p2[j] = 1
BroadcastShape(s1, s2) ==
    LET r == MaxOf(Len(s1), Len(s2))
        p1 == PadLeft(s1, r)
        p2 == PadLeft(s2, r)
    IN  [j \in 1..r |-> IF p1[j] = 1 THEN p2[j] ELSE p1[j]]
BIdx(s, idx) ==
    [j \in 1..Len(s) |-> IF s[j] = 1 THEN 0 ELSE idx[j + (Len(idx) - Len(s))]]

\* one float operation on two entries
ApplyOp(op, x, y) ==
    CASE op = "mul" -> fmul(x, y)
      [] op = "add" -> fadd(x, y)
      [] op = "sub" -> fsub(x, y)

Elementwise(a, b, op) ==
    IF IsRaised(a) \/ IsRaised(b) THEN Raised
    ELSE IF ~Broadcastable(a.shape, b.shape) THEN Raised
    ELSE LET s == BroadcastShape(a.shape, b.shape)
         IN  [shape |-> s,
              data  |-> [p \in 1..Prod(s) |->
                            LET idx == Coord(s, p - 1)
                            IN  ApplyOp(op, At(a, BIdx(a.shape, idx)),
                                            At(b, BIdx(b.shape, idx)))]]

Mul(a, b) == Elementwise(a, b, "mul")
Add(a, b) == Elementwise(a, b, "add")
Sub(a, b) == Elementwise(a, b, "sub")

\* torch.pow(t, 2)
Pow2(t) ==
    IF IsRaised(t) THEN Raised
    ELSE [shape |-> t.shape, data |-> [p \in 1..Len(t.data) |-> fmul(t.data[p], t.data[p])]]

\* 0.5 * t
Half(t) ==
    IF IsRaised(t) THEN Raised
    ELSE [shape |-> t.shape, data |-> [p \in 1..Len(t.data) |-> fhalf(t.data[p])]]

\* left-to-right float accumulation of a sequence
RECURSIVE Accumulate(_, _)
Accumulate(acc, s) ==
    IF s = <<>> THEN acc ELSE Accumulate(fadd(acc, Head(s)), Tail(s))

\* t.sum(): every entry, to a 0-dimensional tensor
SumAll(t) == IF IsRaised(t) THEN Raised ELSE Scalar(Accumulate(0, t.data))

Without(s, d) == [j \in 1..(Len(s) - 1) |-> IF j <= d THEN s[j] ELSE s[j + 1]]
Insert(idx, d, v) ==
    [j \in 1..(Len(idx) + 1) |->
        IF j <= d THEN idx[j] ELSE IF j = d + 1 THEN v ELSE idx[j - 1]]

\* t.sum(d), d a 0-based axis; an axis the tensor does not have raises
SumDim(t, d) ==
    IF IsRaised(t) THEN Raised
    ELSE IF d >= Rank(t) THEN Raised
    ELSE LET s == Without(t.shape, d)
         IN  [shape |-> s,
              data  |-> [p \in 1..Prod(s) |->
                            LET idx == Coord(s, p - 1)
                            IN  Accumulate(0, [j \in 1..t.shape[d + 1] |->
                                                  At(t, Insert(idx, d, j - 1))])]]

\* t.squeeze(): every dimension of size 1 is dropped
NotOne(n) == n # 1
Squeeze(t) ==
    IF IsRaised(t) THEN Raised
    ELSE [shape |-> SelectSeq(t.shape, NotOne), data |-> t.data]

\* t.unsqueeze(-1)
Unsqueeze(t) ==
    IF IsRaised(t) THEN Raised
    ELSE [shape |-> Append(t.shape, 1), data |-> t.data]

\* torch.mm(a, b): both 2-D with matching inner size, else it raises
MM(a, b) ==
    IF IsRaised(a) \/ IsRaised(b) THEN Raised
    ELSE IF Rank(a) # 2 \/ Rank(b) # 2 THEN Raised
    ELSE IF a.shape[2] # b.shape[1] THEN Raised
    ELSE LET s == <<a.shape[1], b.shape[2]>>
         IN  [shape |-> s,
              data  |-> [p \in 1..Prod(s) |->
                            LET idx == Coord(s, p - 1)
                            IN  Accumulate(0, [k \in 1..a.shape[2] |->
                                    fmul(At(a, <<idx[1], k - 1>>),
                                         At(b, <<k - 1, idx[2]>>))])]]

\* an embedding layer applied to a tensor of ids: row ids[p] of weight for each p
Embedding(weight, ids) ==
    LET k == weight.shape[2]
    IN  [shape |-> Append(ids.shape, k),
         data  |-> [p \in 1..(Len(ids.data) * k) |->
                       At(weight, <<ids.data[((p - 1) \div k) + 1], (p - 1) % k>>)]]


(*********************** embedding models **********************************)
NoneVal == <<>>

\* MFDot with the dispatch written as a match on ranks 3 and 2: any other rank,
\* also a rank above 3, takes the single sum
MFDotFallThrough(users_batch, items_batch) ==
    IF Rank(users_batch) = 3 THEN SumDim(Mul(users_batch, items_batch), 2)
    ELSE IF Rank(users_batch) = 2 THEN SumDim(Mul(users_batch, items_batch), 1)
    ELSE SumAll(Mul(users_batch, items_batch))

\* MatrixFactorizationModel.forward: rank dispatch of the reduction
MFDot(users_batch, items_batch) ==
    IF Rank(users_batch) > 2 THEN SumDim(Mul(users_batch, items_batch), 2)
    ELSE IF Rank(users_batch) > 1 THEN SumDim(Mul(users_batch, items_batch), 1)
    ELSE SumAll(Mul(users_batch, items_batch))

\* MatrixFactorizationModel.forward(user_ids, item_ids): the returned tensor
MFForward(self, user_ids, item_ids) ==
    LET user_bias   == Squeeze(Embedding(self.user_biases, user_ids))
        item_bias   == Squeeze(Embedding(self.item_biases, item_ids))
        biases_sum  == Add(user_bias, item_bias)
        users_batch == Squeeze(Embedding(self.x, user_ids))
        items_batch == Squeeze(Embedding(self.y, item_ids))
        dot         == MFDot(users_batch, items_batch)
    IN  Add(biases_sum, dot)

\* SimpleMatrixFactorizationModel.forward: rank dispatch of the reduction
SMFDot(users_batch, items_batch) ==
    IF Rank(users_batch) > 2 THEN SumDim(Mul(users_batch, items_batch), 2)
    ELSE IF Rank(users_batch) > 1 THEN SumDim(Mul(users_batch, items_batch), 1)
    ELSE SumAll(Mul(users_batch, items_batch))

\* SimpleMatrixFactorizationModel.forward(user_ids, item_ids): the returned tensor
SMFForward(self, user_ids, item_ids) ==
    LET users_batch == Squeeze(Embedding(self.x, user_ids))
        items_batch == Squeeze(Embedding(self.y, item_ids))
    IN  SMFDot(users_batch, items_batch)

(******************** factorization machine ********************************)
\* SOForward without the factor 0.5
SOForwardNoHalf(self, x) ==
    LET pow_x   == Pow2(x)
        pow_v   == Pow2(self.v)
        pow_sum == Pow2(MM(x, self.v))
        sum_pow == MM(pow_x, pow_v)
        out     == SumDim(Sub(pow_sum, sum_pow), 1)
    IN  Unsqueeze(out)

\* SOForward with V left unsquared in the sum of squares
SOForwardPlainV(self, x) ==
    LET pow_x   == Pow2(x)
        pow_sum == Pow2(MM(x, self.v))
        sum_pow == MM(pow_x, self.v)
        out     == Half(SumDim(Sub(pow_sum, sum_pow), 1))
    IN  Unsqueeze(out)

\* SecondOrderInteraction.forward(x): the returned tensor
SOForward(self, x) ==
    LET pow_x   == Pow2(x)
        pow_v   == Pow2(self.v)
        pow_sum == Pow2(MM(x, self.v))
        sum_pow == MM(pow_x, pow_v)
        out     == Half(SumDim(Sub(pow_sum, sum_pow), 1))
    IN  Unsqueeze(out)

\* SOAfter with V squared in place (pow_ instead of pow)
SOAfterInPlace(self, x) ==
    [self EXCEPT !.batch_size = <<x.shape[1]>>, !.v = Pow2(self.v)]

\* SecondOrderInteraction.forward(x): the module after the call, whether it
\* returned or raised.  self.batch_size = x.size()[0] is the first statement.
SOAfter(self, x) == [self EXCEPT !.batch_size = <<x.shape[1]>>]

\* FMLinear without the unsqueeze(-1)
FMLinearNoUnsqueeze(self, x) == SumDim(Mul(x, self.linear), 1)

\* FactorizationMachine.forward(x): the linear term
FMLinear(self, x) == Unsqueeze(SumDim(Mul(x, self.linear), 1))

\* FactorizationMachine.forward(x): the returned tensor
FMForward(self, x) ==
    LET linear      == FMLinear(self, x)
        interaction == SOForward(self.second_order, x)
    IN  Add(linear, interaction)

\* FMAfter with the interaction computed before the linear term
FMAfterInteractionFirst(self, x) ==
    [self EXCEPT !.second_order = SOAfter(self.second_order, x)]

\* FactorizationMachine.forward(x): the machine after the call.  When the
\* linear term raises, second_order is never called.
FMAfter(self, x) ==
    IF IsRaised(FMLinear(self, x)) THEN self
    ELSE [self EXCEPT !.second_order = SOAfter(self.second_order, x)]

(************************** construction ***********************************)
\* parameter values a constructed (and possibly trained) model may hold
FactorSeq == <<1, 2, 3, 5>>
BiasSeq   == <<0, 1, 3>>
VSeq      == <<1, -1, 3, 5, 0>>
LinearSeq == <<1, -2, 3>>
\* feature values: even, see the header
XSeq      == <<2, -2, 6, 0>>

\* an (n, k) tensor whose entry (i, f) is seq[a + b*i + c*f], cyclically
Pattern(n, k, seq, a, b, c) ==
    [shape |-> <<n, k>>,
     data  |-> [p \in 1..(n * k) |->
                   seq[((a + b * ((p - 1) \div k) + c * ((p - 1) % k)) % Len(seq)) + 1]]]

Zeros(n, k) == [shape |-> <<n, k>>, data |-> [p \in 1..(n * k) |-> 0]]

FactorTables(n, k) == {Pattern(n, k, FactorSeq, a, 1, 2) : a \in 0..1}
\* bias tables: all zero as constructed, or set by training
BiasTable(n, trained) == IF trained THEN Pattern(n, 1, BiasSeq, 1, 1, 0) ELSE Zeros(n, 1)
VTables(n, k) == {Pattern(n, k, VSeq, a, 1, 1) : a \in 0..(Len(VSeq) - 1)}
LinearVectors(n) ==
    {[shape |-> <<n>>, data |-> Pattern(1, n, LinearSeq, a, 0, 1).data] : a \in 0..1}

\* MatrixFactorizationModel.__init__
NewMF(k, x, y, ub, ib) ==
    [class |-> "MatrixFactorizationModel",
     n_users |-> NUsers, n_items |-> NItems, n_factors |-> k,
     x |-> x, y |-> y, user_biases |-> ub, item_biases |-> ib]

\* SimpleMatrixFactorizationModel.__init__
NewSMF(k, x, y) ==
    [class |-> "SimpleMatrixFactorizationModel",
     n_users |-> NUsers, n_items |-> NItems, n_factors |-> k,
     x |-> x, y |-> y]

\* SecondOrderInteraction.__init__
NewSO(n_features, n_factors, v) ==
    [class |-> "SecondOrderInteraction", batch_size |-> NoneVal,
     n_features |-> n_features, n_factors |-> n_factors, v |-> v]

\* FactorizationMachine.__init__
NewFM(n_features, n_factors, linear, v) ==
    [class |-> "FactorizationMachine",
     n_features |-> n_features, factors |-> n_factors, linear |-> linear,
     second_order |-> NewSO(n_features, n_factors, v)]

NoCall == [op |-> "none", args |-> <<>>, out |-> Raised]

InitMF ==
    \E k \in 1..MaxFactors :
      \E x \in FactorTables(NUsers, k), y \in FactorTables(NItems, k) :
        \E trained \in BOOLEAN :
          obj = NewMF(k, x, y, BiasTable(NUsers, trained), BiasTable(NItems, trained))

InitSMF ==
    \E k \in 1..MaxFactors :
      \E x \in FactorTables(NUsers, k), y \in FactorTables(NItems, k) :
        obj = NewSMF(k, x, y)

InitSO ==
    \E n \in 1..MaxFeatures, k \in 1..MaxFactors :
      \E v \in VTables(n, k) : obj = NewSO(n, k, v)

InitFM ==
    \E n \in 1..MaxFeatures, k \in 1..MaxFactors :
      \E v \in {Pattern(n, k, VSeq, a, 1, 1) : a \in 0..1}, linear \in LinearVectors(n) :
        obj = NewFM(n, k, linear, v)

Init == (InitMF \/ InitSMF \/ InitSO \/ InitFM) /\ call = NoCall /\ threads = <<>>

(****************************** inputs *************************************)
\* index batches: a single pair, 1-D and 2-D batches, a 3-D and a 4-D batch
IdShapes ==
    {<<>>} \cup {<<b>> : b \in 1..MaxBatch}
           \cup {<<b1, b2>> : b1, b2 \in 1..MaxBatch}
           \cup {<<2, 2, 2>>, <<2, 2, 2, 2>>}

\* tensors of ids of shape s: constant or alternating between ids 0 and 1
IdTensors(s, starts, steps) ==
    {[shape |-> s, data |-> [p \in 1..Prod(s) |-> (a + b * (p - 1)) % 2]] :
        a \in starts, b \in steps}

\* feature batches of shape (batch, width); the width may differ from n_features
XTensors ==
    UNION {{Pattern(b, w, XSeq, a, 1, 1) : a \in {0, 2}} :
              b \in 1..MaxBatch, w \in 1..(MaxFeatures + 1)}

(***************************** actions *************************************)
MFCall ==
    /\ obj.class = "MatrixFactorizationModel"
    /\ \E s \in IdShapes :
         \E user_ids \in IdTensors(s, {0, 1}, {1}), item_ids \in IdTensors(s, {1}, {0, 1}) :
           call' = [op |-> "forward", args |-> <<user_ids, item_ids>>,
                    out |-> MFForward(obj, user_ids, item_ids)]
    /\ UNCHANGED <<obj, threads>>

SMFCall ==
    /\ obj.class = "SimpleMatrixFactorizationModel"
    /\ \E s \in IdShapes :
         \E user_ids \in IdTensors(s, {0, 1}, {1}), item_ids \in IdTensors(s, {1}, {0, 1}) :
           call' = [op |-> "forward", args |-> <<user_ids, item_ids>>,
                    out |-> SMFForward(obj, user_ids, item_ids)]
    /\ UNCHANGED <<obj, threads>>

SOCall ==
    /\ obj.class = "SecondOrderInteraction"
    /\ \E x \in XTensors :
         /\ call' = [op |-> "forward", args |-> <<x>>, out |-> SOForward(obj, x)]
         /\ obj' = SOAfter(obj, x)
    /\ UNCHANGED threads

FMCall ==
    /\ obj.class = "FactorizationMachine"
    /\ \E x \in XTensors :
         /\ call' = [op |-> "forward", args |-> <<x>>, out |-> FMForward(obj, x)]
         /\ obj' = FMAfter(obj, x)
    /\ UNCHANGED threads

Next == MFCall \/ SMFCall \/ SOCall \/ FMCall

Spec == Init /\ [][Next]_vars

(***************************************************************************)
(* Interleaved forward calls on one FactorizationMachine and on its         *)
(* second_order module.  Each thread runs forward statement by statement;   *)
(* its locals live in its own frame, self.linear, self.v and                *)
(* self.batch_size are shared.  A statement that raises ends the call.      *)
(***************************************************************************)
Threads == {1, 2}

Unset == [shape |-> <<-2>>, data |-> <<>>]

Idle ==
    [pc |-> "idle", via |-> "none", x |-> Unset, linear |-> Unset, pow_x |-> Unset,
     pow_v |-> Unset, pow_sum |-> Unset, sum_pow |-> Unset, out |-> Unset,
     interaction |-> Unset, ret |-> Unset]

\* feature batches the threads pass
ConcX == {Pattern(b, w, XSeq, 2, 1, 1) : b \in 1..MaxBatch, w \in 1..MaxFeatures}

InitConc ==
    /\ \E n \in 1..MaxFeatures :
         \E linear \in LinearVectors(n) :
           obj = NewFM(n, MaxFactors, linear, Pattern(n, MaxFactors, VSeq, 2, 1, 1))
    /\ call = NoCall
    /\ threads = [t \in Threads |-> Idle]

\* the frame moves to `pc`, or the call ends raising when `value` is Raised
Advance(f, value, pc) ==
    IF IsRaised(value) THEN [f EXCEPT !.pc = "done", !.ret = Raised]
    ELSE [f EXCEPT !.pc = pc]

\* a thread calls FactorizationMachine.forward(x)
EnterFM(t) ==
    /\ threads[t].pc = "idle"
    /\ \E x \in ConcX :
         threads' = [threads EXCEPT ![t] = [Idle EXCEPT !.pc = "fm162", !.via = "fm", !.x = x]]
    /\ UNCHANGED <<obj, call>>

\* a thread calls second_order.forward(x) directly
EnterSO(t) ==
    /\ threads[t].pc = "idle"
    /\ \E x \in ConcX :
         threads' = [threads EXCEPT ![t] = [Idle EXCEPT !.pc = "so191", !.via = "so", !.x = x]]
    /\ UNCHANGED <<obj, call>>

\* linear = (x * self.linear).sum(1).unsqueeze(-1); then self.second_order(x)
Step162(t) ==
    /\ threads[t].pc = "fm162"
    /\ LET linear == FMLinear(obj, threads[t].x)
       IN  threads' = [threads EXCEPT ![t] =
                          Advance([threads[t] EXCEPT !.linear = linear], linear, "so191")]
    /\ UNCHANGED <<obj, call>>

\* self.batch_size = x.size()[0]
Step191(t) ==
    /\ threads[t].pc = "so191"
    /\ obj' = [obj EXCEPT !.second_order = SOAfter(obj.second_order, threads[t].x)]
    /\ threads' = [threads EXCEPT ![t].pc = "so192"]
    /\ UNCHANGED call

\* pow_x = torch.pow(x, 2)
Step192(t) ==
    /\ threads[t].pc = "so192"
    /\ threads' = [threads EXCEPT ![t] =
                      [threads[t] EXCEPT !.pow_x = Pow2(threads[t].x), !.pc = "so193"]]
    /\ UNCHANGED <<obj, call>>

\* pow_v = torch.pow(self.v, 2)
Step193(t) ==
    /\ threads[t].pc = "so193"
    /\ threads' = [threads EXCEPT ![t] =
                      [threads[t] EXCEPT !.pow_v = Pow2(obj.second_order.v), !.pc = "so194"]]
    /\ UNCHANGED <<obj, call>>

\* pow_sum = torch.pow(torch.mm(x, self.v), 2)
Step194(t) ==
    /\ threads[t].pc = "so194"
    /\ LET pow_sum == Pow2(MM(threads[t].x, obj.second_order.v))
       IN  threads' = [threads EXCEPT ![t] =
                          Advance([threads[t] EXCEPT !.pow_sum = pow_sum], pow_sum, "so195")]
    /\ UNCHANGED <<obj, call>>

\* sum_pow = torch.mm(pow_x, pow_v)
Step195(t) ==
    /\ threads[t].pc = "so195"
    /\ LET sum_pow == MM(threads[t].pow_x, threads[t].pow_v)
       IN  threads' = [threads EXCEPT ![t] =
                          Advance([threads[t] EXCEPT !.sum_pow = sum_pow], sum_pow, "so196")]
    /\ UNCHANGED <<obj, call>>

\* out = 0.5 * (pow_sum - sum_pow).sum(1)
Step196(t) ==
    /\ threads[t].pc = "so196"
    /\ LET out == Half(SumDim(Sub(threads[t].pow_sum, threads[t].sum_pow), 1))
       IN  threads' = [threads EXCEPT ![t] =
                          Advance([threads[t] EXCEPT !.out = out], out, "so198")]
    /\ UNCHANGED <<obj, call>>

\* t.view(s): the same entries under another shape of the same size
View(t, s) ==
    IF IsRaised(t) THEN Raised
    ELSE IF Prod(s) # Len(t.data) THEN Raised
    ELSE [shape |-> s, data |-> t.data]

\* SOReturn shaping the result with the recorded batch size
SOReturnRecordedSize(self, out) == View(out, <<self.batch_size[1], 1>>)

\* return out.unsqueeze(-1)
SOReturn(self, out) == Unsqueeze(out)

\* the second-order module returns: to its caller, or into the machine's forward
Step198(t) ==
    /\ threads[t].pc = "so198"
    /\ LET r == SOReturn(obj.second_order, threads[t].out)
       IN  threads' = [threads EXCEPT ![t] =
               IF threads[t].via = "so"
               THEN [threads[t] EXCEPT !.pc = "done", !.ret = r]
               ELSE Advance([threads[t] EXCEPT !.interaction = r], r, "fm164")]
    /\ UNCHANGED <<obj, call>>

\* res = linear + interaction; return res
Step164(t) ==
    /\ threads[t].pc = "fm164"
    /\ threads' = [threads EXCEPT ![t] =
                      [threads[t] EXCEPT !.pc = "done",
                                         !.ret = Add(threads[t].linear, threads[t].interaction)]]
    /\ UNCHANGED <<obj, call>>

\* the caller takes the result (or the exception); the thread may call again
Finish(t) ==
    /\ threads[t].pc = "done"
    /\ threads' = [threads EXCEPT ![t] = Idle]
    /\ UNCHANGED <<obj, call>>

NextConc ==
    \E t \in Threads :
        \/ EnterFM(t) \/ EnterSO(t) \/ Step162(t) \/ Step191(t) \/ Step192(t)
        \/ Step193(t) \/ Step194(t) \/ Step195(t) \/ Step196(t) \/ Step198(t)
        \/ Step164(t) \/ Finish(t)

SpecConc == InitConc /\ [][NextConc]_vars


(***************************************************************************)
(* Properties.  The reference values below are written entry by entry,     *)
(* with explicit loops, and never through the tensor operations.           *)
(***************************************************************************)
IsForward == call.op = "forward"
IsSO == obj.class = "SecondOrderInteraction"
IsFM == obj.class = "FactorizationMachine"
IsMF == obj.class = "MatrixFactorizationModel"
IsSMF == obj.class = "SimpleMatrixFactorizationModel"

\* entry (b, i) of a 2-D tensor, 1-based
Entry(t, b, i) == t.data[(b - 1) * t.shape[2] + i]

RECURSIVE SumSeq(_)
SumSeq(s) == IF s = <<>> THEN 0 ELSE Head(s) + SumSeq(Tail(s))

Representable(n) == fl(n) = n
PrefixesRepresentable(s) == \A m \in 1..Len(s) : Representable(SumSeq(SubSeq(s, 1, m)))

\* 0.5 * sum_f [(sum_i x[b,i] V[i,f])^2 - sum_i x[b,i]^2 V[i,f]^2], looped in floats
ClosedForm(x, v, b) ==
    LET n == v.shape[1]
        K == v.shape[2]
        S(f) == Accumulate(0, [i \in 1..n |-> fmul(Entry(x, b, i), Entry(v, i, f))])
        Q(f) == Accumulate(0, [i \in 1..n |->
                    fmul(fmul(Entry(x, b, i), Entry(x, b, i)),
                         fmul(Entry(v, i, f), Entry(v, i, f)))])
    IN  fhalf(Accumulate(0, [f \in 1..K |-> fsub(fmul(S(f), S(f)), Q(f))]))

\* sum over i < j of x[b,i] x[b,j] <V_i, V_j>, in exact arithmetic
PairwiseSum(x, v, b) ==
    LET n == v.shape[1]
        K == v.shape[2]
        Inner(i, j) == SumSeq([f \in 1..K |-> Entry(v, i, f) * Entry(v, j, f)])
        RowOf(i) == SumSeq([j \in 1..n |->
                       IF i < j THEN Entry(x, b, i) * Entry(x, b, j) * Inner(i, j) ELSE 0])
    IN  SumSeq([i \in 1..n |-> RowOf(i)])

\* no product, square, partial sum or difference of sample b's computation rounds
NoRounding(x, v, b) ==
    LET n == v.shape[1]
        K == v.shape[2]
        XV(f) == [i \in 1..n |-> Entry(x, b, i) * Entry(v, i, f)]
        XXVV(f) == [i \in 1..n |-> XV(f)[i] * XV(f)[i]]
        D(f) == SumSeq(XV(f)) * SumSeq(XV(f)) - SumSeq(XXVV(f))
    IN  /\ \A i \in 1..n : Representable(Entry(x, b, i) * Entry(x, b, i))
        /\ \A i \in 1..n, f \in 1..K : Representable(Entry(v, i, f) * Entry(v, i, f))
        /\ \A f \in 1..K :
             /\ PrefixesRepresentable(XV(f))
             /\ PrefixesRepresentable(XXVV(f))
             /\ \A i \in 1..n : Representable(XV(f)[i]) /\ Representable(XXVV(f)[i])
             /\ Representable(SumSeq(XV(f)) * SumSeq(XV(f)))
             /\ Representable(D(f))
        /\ PrefixesRepresentable([f \in 1..K |-> D(f)])

\* the call in `call` is a forward of a second-order module on a well-shaped x
SOCalled ==
    /\ IsForward /\ IsSO
    /\ call.args[1].shape[2] = obj.n_features

FMCalled ==
    /\ IsForward /\ IsFM
    /\ call.args[1].shape[2] = obj.n_features

\* sum over the features i of x[b,i] * linear[i], looped in floats
LinearTerm(x, linear, b) ==
    Accumulate(0, [i \in 1..Len(linear.data) |-> fmul(Entry(x, b, i), linear.data[i])])

\* C2: for x of shape (batch_size, n_features), FactorizationMachine.forward
\* returns shape (batch_size, 1); entry b is the linear term sum_i x[b,i]*linear[i]
\* plus the output for sample b of the machine's second-order module, which was
\* constructed with the machine's n_features and n_factors.
C2_LinearPlusInteraction ==
    FMCalled =>
        LET x == call.args[1]
            interaction == SOForward(obj.second_order, x)
        IN  /\ obj.second_order.n_features = obj.n_features
            /\ obj.second_order.n_factors = obj.factors
            /\ obj.second_order.v.shape = <<obj.n_features, obj.factors>>
            /\ call.out.shape = <<x.shape[1], 1>>
            /\ \A b \in 1..x.shape[1] :
                 /\ interaction.data[b] = ClosedForm(x, obj.second_order.v, b)
                 /\ call.out.data[b] =
                        fadd(LinearTerm(x, obj.linear, b), interaction.data[b])

\* a machine with two features called on a batch of two samples, both the
\* linear and the interaction term of some sample being non-zero
C2_Witness ==
    /\ FMCalled
    /\ obj.n_features >= 2
    /\ call.args[1].shape[1] >= 2
    /\ \E b \in 1..call.args[1].shape[1] :
         /\ LinearTerm(call.args[1], obj.linear, b) # 0
         /\ ClosedForm(call.args[1], obj.second_order.v, b) # 0

\* the squares and products of sample b's single feature are computed exactly
SingleFeatureExact(x, v, b) ==
    \A f \in 1..v.shape[2] :
        /\ Representable(Entry(x, b, 1) * Entry(x, b, 1))
        /\ Representable(Entry(v, 1, f) * Entry(v, 1, f))
        /\ Representable(Entry(x, b, 1) * Entry(v, 1, f))
        /\ Representable(Entry(x, b, 1) * Entry(v, 1, f) * Entry(x, b, 1) * Entry(v, 1, f))

\* C6 as stated: with n_features = 1, SecondOrderInteraction.forward returns
\* exactly 0 for every sample, whatever x and V.
C6_AlwaysExactlyZero ==
    (SOCalled /\ obj.n_features = 1) =>
        \A b \in 1..call.args[1].shape[1] : call.out.data[b] = 0

\* C6 amended: with n_features = 1, the output for sample b is exactly 0
\* whenever x[b,0]^2, V[0,f]^2, x[b,0]*V[0,f] and its square are computed without
\* rounding (in particular when x[b,0] = 0 or V = 0); otherwise it is the
\* rounding residue of (x V)^2 - x^2 V^2, which need not be 0.
C6_ZeroWhenExact ==
    (SOCalled /\ obj.n_features = 1) =>
        /\ call.out.shape = <<call.args[1].shape[1], 1>>
        /\ \A b \in 1..call.args[1].shape[1] :
             SingleFeatureExact(call.args[1], obj.v, b) => call.out.data[b] = 0

\* a single-feature call with non-zero x and V whose squares are exact
C6_Witness ==
    /\ SOCalled /\ obj.n_features = 1
    /\ \E b \in 1..call.args[1].shape[1] :
         /\ Entry(call.args[1], b, 1) # 0
         /\ \A f \in 1..obj.n_factors : Entry(obj.v, 1, f) # 0
         /\ SingleFeatureExact(call.args[1], obj.v, b)
         /\ call.out.data[b] = 0


\* the call in `call` is a forward of one of the two embedding models
EmbCalled == IsForward /\ (IsMF \/ IsSMF)

\* inner product of the factor rows of user u and item i (0-based ids)
PairDot(self, u, i) ==
    Accumulate(0, [f \in 1..self.n_factors |->
                      fmul(Entry(self.x, u + 1, f), Entry(self.y, i + 1, f))])

\* the prediction for the pair (u, i): the inner product, plus the two biases
\* in the bias variant
PairPrediction(self, u, i) ==
    IF self.class = "MatrixFactorizationModel"
    THEN fadd(fadd(Entry(self.user_biases, u + 1, 1), Entry(self.item_biases, i + 1, 1)),
              PairDot(self, u, i))
    ELSE PairDot(self, u, i)

\* the result has the shape of the index batch and holds each pair's prediction
PerPair ==
    /\ call.out.shape = call.args[1].shape
    /\ \A p \in 1..Len(call.args[1].data) :
         call.out.data[p] = PairPrediction(obj, call.args[1].data[p], call.args[2].data[p])

\* C3: for a 1-D batch of B >= 1 pairs and any n_factors >= 1, forward of both
\* embedding models returns shape (B,), entry i being the inner product of the
\* rows of user_ids[i] and item_ids[i], plus the two biases in the bias variant.
C3_OnePredictionPerPair ==
    (EmbCalled /\ Rank(call.args[1]) = 1) => PerPair

\* C4: for a 2-D batch of shape (B1, B2) and any n_factors >= 1, forward returns
\* shape (B1, B2), entry [i,j] being the same per-pair value as in the single-pair
\* and 1-D cases.
C4_TwoDimPerPair ==
    (EmbCalled /\ Rank(call.args[1]) = 2) => PerPair

AllZero(t) == \A p \in 1..Len(t.data) : t.data[p] = 0

\* C5: with identical factor tables and all biases zero, the bias model and the
\* bias-free model return the same result (shape and values) for every batch of
\* a supported rank (single pair, 1-D, 2-D).
C5_VariantsAgree ==
    (IsForward /\ IsMF /\ Rank(call.args[1]) <= 2
       /\ AllZero(obj.user_biases) /\ AllZero(obj.item_biases)) =>
        call.out = SMFForward(NewSMF(obj.n_factors, obj.x, obj.y),
                              call.args[1], call.args[2])

\* the gathered and squeezed factor batches of the call
GatheredUsers == Squeeze(Embedding(obj.x, call.args[1]))
GatheredItems == Squeeze(Embedding(obj.y, call.args[2]))
GatheredBiases ==
    Add(Squeeze(Embedding(obj.user_biases, call.args[1])),
        Squeeze(Embedding(obj.item_biases, call.args[2])))

\* the product of two batches reduced by one sum over all its entries
SingleSum(u, i) ==
    Scalar(Accumulate(0, [q \in 1..Len(u.data) |-> fmul(u.data[q], i.data[q])]))

\* the product of two batches reduced along axis 2 (0-based) only
AxisTwoSum(u, i) ==
    LET s == Without(u.shape, 2)
    IN  [shape |-> s,
         data  |-> [p \in 1..Prod(s) |->
                       Accumulate(0, [m \in 1..u.shape[3] |->
                           fmul(At(u, Insert(Coord(s, p - 1), 2, m - 1)),
                                At(i, Insert(Coord(s, p - 1), 2, m - 1)))])]]

\* C10 as stated: a gathered batch of rank > 3 falls through to the single-sum
\* path, the product being reduced to one scalar as for a single pair.
C10_FallsToSingleSum ==
    (EmbCalled /\ Rank(GatheredUsers) > 3) =>
        call.out = IF IsMF THEN Add(GatheredBiases, SingleSum(GatheredUsers, GatheredItems))
                   ELSE SingleSum(GatheredUsers, GatheredItems)

\* C10 amended: a gathered batch of rank r > 3 takes the first branch of the
\* dispatch (rank > 2): the product is reduced along axis 2 only, to a tensor of
\* rank r - 1, to which the bias variant adds the bias sum by broadcasting
\* (raising when the shapes do not broadcast).  Only rank <= 1 takes the
\* single-sum path.
C10_ReducesAxisTwo ==
    (EmbCalled /\ Rank(GatheredUsers) > 3) =>
        /\ Rank(AxisTwoSum(GatheredUsers, GatheredItems)) = Rank(GatheredUsers) - 1
        /\ call.out = IF IsMF THEN Add(GatheredBiases, AxisTwoSum(GatheredUsers, GatheredItems))
                      ELSE AxisTwoSum(GatheredUsers, GatheredItems)

\* a call whose gathered batch has rank 4 and whose result is a rank-3 tensor
C10_Witness ==
    /\ EmbCalled
    /\ Rank(GatheredUsers) = 4
    /\ Rank(call.out) = 3
    /\ call.out # SingleSum(GatheredUsers, GatheredItems)


\* the parameter arrays of a model
Params(o) ==
    CASE o.class = "MatrixFactorizationModel" -> <<o.x, o.y, o.user_biases, o.item_biases>>
      [] o.class = "SimpleMatrixFactorizationModel" -> <<o.x, o.y>>
      [] o.class = "SecondOrderInteraction" -> <<o.v>>
      [] o.class = "FactorizationMachine" -> <<o.linear, o.second_order.v>>

\* the model with the batch-size record of its second-order module set to b
WithBatchSize(o, b) ==
    IF o.class = "SecondOrderInteraction" THEN [o EXCEPT !.batch_size = <<b>>]
    ELSE [o EXCEPT !.second_order.batch_size = <<b>>]

\* the feature width of the call's input differs from n_features
BadWidth == (IsSO \/ IsFM) /\ IsForward /\ call.args[1].shape[2] # obj.n_features

\* C7 as stated: a forward call of FactorizationMachine or SecondOrderInteraction
\* on an input whose width differs from n_features ends in an error and leaves
\* the model object exactly as it was before the call.
C7_FailedCallLeavesObject ==
    [][BadWidth' => (IsRaised(call'.out) /\ obj' = obj)]_vars

\* C7 amended: such a call ends in an error and writes no parameter; the one
\* field it may change is the batch-size record, which is overwritten with
\* x.size()[0] whenever the error arises after the second-order module's first
\* statement: always in SecondOrderInteraction.forward, and in
\* FactorizationMachine.forward when x broadcasts against the linear weights
\* (width 1 or n_features 1).
C7_FailedCallWritesOnlyBatchSize ==
    [][BadWidth' =>
          /\ IsRaised(call'.out)
          /\ Params(obj') = Params(obj)
          /\ LET x == call'.args[1]
             IN  obj' = IF IsSO \/ x.shape[2] = 1 \/ obj.n_features = 1
                        THEN WithBatchSize(obj, x.shape[1])
                        ELSE obj]_vars

\* a machine with two features was called on a width-1 batch: the call raised
\* and the batch-size record holds that batch's size
C7_Witness ==
    /\ BadWidth /\ IsFM
    /\ obj.n_features = 2
    /\ call.args[1].shape[2] = 1
    /\ IsRaised(call.out)
    /\ obj.second_order.batch_size = <<call.args[1].shape[1]>>

\* what a finished call of a thread must return, from its own x and the
\* parameters alone
Expected(f) ==
    IF f.via = "fm" THEN FMForward(obj, f.x) ELSE SOForward(obj.second_order, f.x)

\* C8: however forward calls on one instance interleave, each returns (or
\* raises) what its own input x and the current parameters determine; the
\* batch-size record written by the calls affects no result.
C8_ResultFromOwnInput ==
    \A t \in DOMAIN threads :
        threads[t].pc = "done" => threads[t].ret = Expected(threads[t])

\* a call returned a result while the batch-size record held the size of
\* another call's batch
C8_Witness ==
    \E t \in DOMAIN threads :
        /\ threads[t].pc = "done"
        /\ ~IsRaised(threads[t].ret)
        /\ obj.second_order.batch_size # <<threads[t].x.shape[1]>>

\* C9: no forward call of any of the four models writes, resizes or replaces a
\* parameter array: each keeps the shape and values it had before the call, and
\* so those it had after construction.
C9_ParametersReadOnly ==
    [][Params(obj') = Params(obj)]_vars

\* a forward call has returned a result
C9_Witness ==
    /\ IsForward
    /\ ~IsRaised(call.out)
    /\ IsSO
    /\ obj.batch_size # NoneVal

====
